---- MODULE Spec2Model ----
(***************************************************************************)
(* A state-machine model of react-hook-stepper: the provider's state       *)
(* (StepsContext.tsx), the navigation handlers (useStepNavigation.tsx) and *)
(* the step actions (useStepsActions.tsx).                                 *)
(*                                                                         *)
(* Conventions.  Step indexes are 0-based as in the source; the step at    *)
(* index i is steps[i + 1].  A JavaScript object is a function from its    *)
(* keys to its values; a key whose value is undefined is absent.  An       *)
(* optional value is <<>> (absent) or <<v>>.  A ratio a / b is kept in     *)
(* lowest terms (Div), so that two ratios are the same number exactly      *)
(* when they are equal.                                                    *)
(***************************************************************************)
EXTENDS Integers, Sequences, FiniteSets, TLC

VARIABLES
    currentStep,    \* useState(initialStateData.currentStep)
    loading,        \* useState(false)
    stepperState,   \* useState(initialStateData.state)
    config,         \* useState<StepperConfig>(initialConfig)
    storage,        \* localStorage["stepperState"]: <<>> or <<blob>>
    calls,          \* navigation calls suspended at `await onCompleteStep`
    last,           \* what the latest handler step did (observation)
    ops,            \* how many handler calls have been made
    pre             \* the state the latest navigation or updateSteps call
                    \* was made in, and its input (observation)

vars == <<currentStep, loading, stepperState, config, storage, calls, last, ops, pre>>

(***************************************************************************)
(* Bounds of the model.                                                    *)
(***************************************************************************)
MaxSteps == 3
MaxInFlight == 2
MaxOps == 3
MaxCalls == 2

Slots == 1..MaxInFlight

(***************************************************************************)
(* Objects and ratios.                                                     *)
(***************************************************************************)
EmptyObj == <<>>

\* { ...a, ...b }
Spread(a, b) == [k \in (DOMAIN a) \cup (DOMAIN b) |->
                    IF k \in DOMAIN b THEN b[k] ELSE a[k]]

\* obj.k === true
IsTrue(obj, k) == k \in DOMAIN obj /\ obj[k] = TRUE

RECURSIVE GCD(_, _)
GCD(a, b) == IF b = 0 THEN a ELSE GCD(b, a % b)

\* a / b for integers a >= 0, b > 0
Div(a, b) == LET g == GCD(a, b) IN [num |-> a \div g, den |-> b \div g]

\* the value of key k of obj, <<>> when absent
Field(obj, k) == IF k \in DOMAIN obj THEN <<obj[k]>> ELSE <<>>

Zero == Div(0, 1)

\* x || 1
OrOne(x) == IF x = 0 THEN 1 ELSE x

StepName(i) == <<"Step 1", "Step 2", "Step 3", "Step 4", "Step 5">>[i]

(***************************************************************************)
(* StepsContext.tsx: the state the provider starts from.                   *)
(***************************************************************************)
baseState ==
    [generalInfo |-> [totalSteps |-> 0, currentProgress |-> Zero,
                      completedProgress |-> Zero, canAccessProgress |-> Zero],
     steps |-> <<>>,
     generalState |-> EmptyObj,
     isLoadedFromLocalStorage |-> FALSE]

(***************************************************************************)
(* useStepNavigation.tsx: the transition computed by a navigation call.    *)
(***************************************************************************)
\* steps.filter((item) => item[flag] === true).length
RECURSIVE CountTrue(_, _)
CountTrue(steps, flag) ==
    IF steps = <<>> THEN 0
    ELSE (IF IsTrue(Head(steps), flag) THEN 1 ELSE 0) + CountTrue(Tail(steps), flag)

calculateProgress(steps, totalSteps) ==
    [completedProgress |-> Div(CountTrue(steps, "isCompleted"), OrOne(totalSteps)),
     canAccessProgress |-> Div(CountTrue(steps, "canAccess"), OrOne(totalSteps))]

\* updatedSteps[i] = v, for an index i of the array or the one right after it
SetAt(arr, i, v) ==
    IF i < Len(arr) THEN [arr EXCEPT ![i + 1] = v] ELSE Append(arr, v)

\* currentState.steps[i], undefined (spread as nothing) outside the array
StepAt(steps, i) == IF i >= 0 /\ i < Len(steps) THEN steps[i + 1] ELSE EmptyObj

\* updates.forEach: each patch is spread over the step as it was in
\* currentState, not over the step as already patched
RECURSIVE ApplyStatus(_, _, _)
ApplyStatus(orig, acc, updates) ==
    IF updates = <<>> THEN acc
    ELSE LET u == Head(updates) IN
         ApplyStatus(orig,
                     SetAt(acc, u.stepIndex, Spread(StepAt(orig, u.stepIndex), u.data)),
                     Tail(updates))

updateStepsStatus(currentState, updates) ==
    ApplyStatus(currentState.steps, currentState.steps, updates)

\* cfg.next?.currentStep and the like: {} when not configured
NavPatch(cfg, dir, which) ==
    IF dir \in DOMAIN cfg /\ which \in DOMAIN cfg[dir] THEN cfg[dir][which] ELSE EmptyObj

\* { ...step, f: patch.f ?? fallback.f ?? step.f } for the four flags
Override(step, patch, fallback) == Spread(Spread(step, fallback), patch)

\* Mutant: the step being left keeps its isCompleted when nothing is configured.
updateStepStatesKeepCompleted(cfg, steps, currentStepIndex, targetStepIndex, isMovingForward) ==
    [i \in 1..Len(steps) |->
        LET step == steps[i]
            isCurrentStep == (i - 1) = currentStepIndex
            isTargetStep == (i - 1) = targetStepIndex
        IN  IF isCurrentStep /\ isMovingForward
              THEN Override(step, NavPatch(cfg, "next", "currentStep"), EmptyObj)
            ELSE IF isCurrentStep /\ ~isMovingForward
              THEN Override(step, NavPatch(cfg, "prev", "currentStep"), EmptyObj)
            ELSE IF isTargetStep /\ isMovingForward
              THEN Override(step, NavPatch(cfg, "next", "nextStep"),
                            [canAccess |-> TRUE])
            ELSE IF isTargetStep /\ ~isMovingForward
              THEN Override(step, NavPatch(cfg, "prev", "prevStep"), EmptyObj)
            ELSE step]

\* Mutant: every step from the target on is treated as the target.
updateStepStatesFromTarget(cfg, steps, currentStepIndex, targetStepIndex, isMovingForward) ==
    [i \in 1..Len(steps) |->
        LET step == steps[i]
            isCurrentStep == (i - 1) = currentStepIndex
            isTargetStep == (i - 1) >= targetStepIndex
        IN  IF isCurrentStep /\ isMovingForward
              THEN Override(step, NavPatch(cfg, "next", "currentStep"),
                            [isCompleted |-> TRUE])
            ELSE IF isCurrentStep /\ ~isMovingForward
              THEN Override(step, NavPatch(cfg, "prev", "currentStep"), EmptyObj)
            ELSE IF isTargetStep /\ isMovingForward
              THEN Override(step, NavPatch(cfg, "next", "nextStep"),
                            [canAccess |-> TRUE])
            ELSE IF isTargetStep /\ ~isMovingForward
              THEN Override(step, NavPatch(cfg, "prev", "prevStep"), EmptyObj)
            ELSE step]

updateStepStates(cfg, steps, currentStepIndex, targetStepIndex, isMovingForward) ==
    [i \in 1..Len(steps) |->
        LET step == steps[i]
            isCurrentStep == (i - 1) = currentStepIndex
            isTargetStep == (i - 1) = targetStepIndex
        IN  IF isCurrentStep /\ isMovingForward
              THEN Override(step, NavPatch(cfg, "next", "currentStep"),
                            [isCompleted |-> TRUE])
            ELSE IF isCurrentStep /\ ~isMovingForward
              THEN Override(step, NavPatch(cfg, "prev", "currentStep"), EmptyObj)
            ELSE IF isTargetStep /\ isMovingForward
              THEN Override(step, NavPatch(cfg, "next", "nextStep"),
                            [canAccess |-> TRUE])
            ELSE IF isTargetStep /\ ~isMovingForward
              THEN Override(step, NavPatch(cfg, "prev", "prevStep"), EmptyObj)
            ELSE step]

\* updateGeneralStates?.data || {}
DataOf(opt) == IF opt = <<>> THEN EmptyObj ELSE opt[1]

\* Mutant: updateStepsStatus is applied after the direction overrides.
NavStatePatchesLast(cfg, state, cur, targetStep, args) ==
    LET isMovingForward == targetStep > cur
        overridden == updateStepStates(cfg, state.steps, cur, targetStep,
                                       isMovingForward)
        finalSteps == updateStepsStatus([state EXCEPT !.steps = overridden],
                                        args.updateStepsStatus)
        progress == calculateProgress(finalSteps, state.generalInfo.totalSteps)
    IN  [state EXCEPT
            !.steps = finalSteps,
            !.generalInfo =
                [totalSteps |-> state.generalInfo.totalSteps,
                 currentProgress |->
                     Div(targetStep + 1, OrOne(state.generalInfo.totalSteps)),
                 completedProgress |-> progress.completedProgress,
                 canAccessProgress |-> progress.canAccessProgress],
            !.generalState = Spread(state.generalState, DataOf(args.updateGeneralStates))]

\* Mutant: currentProgress is targetStep / totalSteps.
NavStateOldProgress(cfg, state, cur, targetStep, args) ==
    LET updatedSteps == updateStepsStatus(state, args.updateStepsStatus)
        isMovingForward == targetStep > cur
        finalSteps == updateStepStates(cfg, updatedSteps, cur, targetStep,
                                       isMovingForward)
        progress == calculateProgress(finalSteps, state.generalInfo.totalSteps)
    IN  [state EXCEPT
            !.steps = finalSteps,
            !.generalInfo =
                [totalSteps |-> state.generalInfo.totalSteps,
                 currentProgress |->
                     Div(targetStep, OrOne(state.generalInfo.totalSteps)),
                 completedProgress |-> progress.completedProgress,
                 canAccessProgress |-> progress.canAccessProgress],
            !.generalState = Spread(state.generalState, DataOf(args.updateGeneralStates))]

\* executeStepNavigation, lines 140-174: the state it builds
NavState(cfg, state, cur, targetStep, args) ==
    LET updatedSteps == updateStepsStatus(state, args.updateStepsStatus)
        isMovingForward == targetStep > cur
        finalSteps == updateStepStates(cfg, updatedSteps, cur, targetStep,
                                       isMovingForward)
        progress == calculateProgress(finalSteps, state.generalInfo.totalSteps)
    IN  [state EXCEPT
            !.steps = finalSteps,
            !.generalInfo =
                [totalSteps |-> state.generalInfo.totalSteps,
                 currentProgress |->
                     Div(targetStep + 1, OrOne(state.generalInfo.totalSteps)),
                 completedProgress |-> progress.completedProgress,
                 canAccessProgress |-> progress.canAccessProgress],
            !.generalState = Spread(state.generalState, DataOf(args.updateGeneralStates))]

\* JSON.stringify(state): the blob kept under "stepperState"
Stringify(state) ==
    [generalInfo |-> state.generalInfo,
     steps |-> state.steps,
     generalState |-> state.generalState,
     isLoadedFromLocalStorage |-> state.isLoadedFromLocalStorage]

\* Mutant: the blob is written whatever config.saveLocalStorage is.
saveToLocalStorageAlways(cfg, store, state) == <<Stringify(state)>>

\* saveToLocalStorage: the store after it
saveToLocalStorage(cfg, store, state) ==
    IF cfg.saveLocalStorage THEN <<Stringify(state)>> ELSE store

(***************************************************************************)
(* Configuration (StepperConfig).                                          *)
(***************************************************************************)
\* config.saveLocalStorage, as a condition
SaveOn(cfg) == IsTrue(cfg, "saveLocalStorage")

\* config?.validations?.goToStep?.canAccess ?? true
validationCanAccess(cfg) ==
    IF /\ "validations" \in DOMAIN cfg
       /\ "goToStep" \in DOMAIN cfg.validations
       /\ "canAccess" \in DOMAIN cfg.validations.goToStep
    THEN cfg.validations.goToStep.canAccess
    ELSE TRUE

MakeConfig(nav, val, save) == Spread(Spread(nav, val), [saveLocalStorage |-> save])

NoNav == EmptyObj

TestNav ==
    [next |-> [currentStep |-> [canAccess |-> TRUE, isCompleted |-> TRUE,
                                canEdit |-> TRUE],
               nextStep |-> [canAccess |-> TRUE, isCompleted |-> FALSE,
                             canEdit |-> TRUE]]]

ReadmeNav ==
    [next |-> [currentStep |-> [canAccess |-> TRUE, canEdit |-> TRUE,
                                isCompleted |-> TRUE],
               nextStep |-> [canAccess |-> TRUE, canEdit |-> FALSE]],
     prev |-> [currentStep |-> [canEdit |-> TRUE, isCompleted |-> FALSE],
               prevStep |-> [canAccess |-> TRUE, canEdit |-> TRUE]],
     goToStep |-> [currentStep |-> [isCompleted |-> TRUE],
                   nextStep |-> [canAccess |-> TRUE]]]

Validation(b) == [validations |-> [goToStep |-> [canAccess |-> b]]]

\* The configurations the provider is mounted with: the default navigation
\* configuration (no override block) with validation unset or off, the
\* configuration of the navigation tests (mockConfig, validation on), and the
\* README's next/prev block; persistence on or off.
Configs ==
    { MakeConfig(NoNav, EmptyObj, TRUE),
      MakeConfig(NoNav, Validation(FALSE), FALSE),
      MakeConfig(TestNav, Validation(TRUE), FALSE),
      MakeConfig(ReadmeNav, EmptyObj, TRUE) }

(***************************************************************************)
(* The arguments the handlers are called with.                             *)
(***************************************************************************)
\* updateGeneralStates.data / updateGeneralState's data
Datas == { [k1 |-> 1], [k1 |-> 2, k2 |-> 1] }

\* The bundles the navigation handlers are called with: nothing; a callback
\* with data and a patch granting access to the last step; without a
\* callback, data and a patch un-completing the first step; and a patch of
\* the index right after the last step (navigation does not validate the
\* patched indexes).
Bundle(cb, status, data) ==
    [onCompleteStep |-> cb, updateStepsStatus |-> status, updateGeneralStates |-> data]

PatchOf(state, stepIndex, data) ==
    IF stepIndex >= 0 /\ stepIndex < Len(state.steps)
    THEN <<[stepIndex |-> stepIndex, data |-> data]>>
    ELSE <<>>

NavArgs(state) ==
    { Bundle(FALSE, <<>>, <<>>),
      Bundle(TRUE, PatchOf(state, Len(state.steps) - 1, [canAccess |-> TRUE]),
             <<[k1 |-> 1]>>),
      Bundle(FALSE, PatchOf(state, 0, [isCompleted |-> FALSE]),
             <<[k1 |-> 2, k2 |-> 1]>>),
      Bundle(FALSE, <<[stepIndex |-> Len(state.steps), data |-> [canAccess |-> TRUE]]>>,
             <<>>) }

(***************************************************************************)
(* Observation of the latest handler step: which handler ran (op) with     *)
(* which bundle (args), towards which index (target, -1 when none), how it *)
(* ended (outcome), what happened to onCompleteStep in this step (cb:      *)
(* "none", "invoked" with the state cbArg, or the awaited call "resolved"  *)
(* or "rejected"), and whether updateStepperState was called (replaced).   *)
(*                                                                         *)
(* Outcomes: "threw" (the call throws or rejects at once), "noop",         *)
(* "blocked" and "warnFirst" (a guard returned; the last two log a         *)
(* warning), "warnLast" (the last-step warning was logged), "await" and    *)
(* "awaitLast" (suspended at the callback), "committed" (the transition    *)
(* was committed), "caught" (the rejection was caught and logged; the call *)
(* returns), "rejectedLast" (the call rejects with the callback's error),  *)
(* "done" (a step action returned).                                        *)
(***************************************************************************)
NoArgs == Bundle(FALSE, <<>>, <<>>)

Obs(op, args, target, outcome, cb, cbArg, replaced) ==
    [op |-> op, args |-> args, target |-> target, outcome |-> outcome,
     cb |-> cb, cbArg |-> cbArg, replaced |-> replaced]

Free == [kind |-> "free"]

FreeSlots == { s \in Slots : calls[s].kind = "free" }

\* no call is suspended at its callback
AllFree == \A s \in Slots : calls[s].kind = "free"

\* the slot a call that suspends takes
NextSlot == CHOOSE s \in FreeSlots : \A r \in FreeSlots : s <= r

Suspend(op, kind, target, newState) ==
    /\ FreeSlots # {}
    /\ calls' = [calls EXCEPT ![NextSlot] =
                    [kind |-> kind, op |-> op, target |-> target, newState |-> newState]]

(***************************************************************************)
(* useStepNavigation.tsx: the handlers.                                    *)
(***************************************************************************)
\* executeStepNavigation up to `await onCompleteStep(currentState)`, and to
\* its end when no callback was given
executeStepNavigation(op, targetStep, args) ==
    LET newState == NavState(config, stepperState, currentStep, targetStep, args) IN
    /\ storage' = saveToLocalStorage(config, storage, newState)
    /\ IF args.onCompleteStep
         THEN /\ Suspend(op, "nav", targetStep, newState)
              /\ loading' = TRUE
              /\ UNCHANGED <<currentStep, stepperState>>
              /\ last' = Obs(op, args, targetStep, "await", "invoked", <<newState>>, FALSE)
         ELSE /\ stepperState' = newState
              /\ currentStep' = targetStep
              /\ loading' = FALSE
              /\ UNCHANGED calls
              /\ last' = Obs(op, args, targetStep, "committed", "none", <<>>, TRUE)
    /\ UNCHANGED config

\* Mutant: on the last step the callback receives the state with
\* updateGeneralStates merged in.
onNextLastMerging(args) ==
    IF currentStep >= stepperState.generalInfo.totalSteps - 1
    THEN LET merged == [stepperState EXCEPT
                           !.generalState = Spread(stepperState.generalState,
                                                   DataOf(args.updateGeneralStates))] IN
         /\ storage' = IF SaveOn(config) THEN <<>> ELSE storage
         /\ IF args.onCompleteStep
              THEN /\ Suspend("onNext", "last", currentStep, stepperState)
                   /\ last' = Obs("onNext", args, -1, "awaitLast", "invoked",
                                  <<merged>>, FALSE)
              ELSE /\ UNCHANGED calls
                   /\ last' = Obs("onNext", args, -1, "warnLast", "none", <<>>, FALSE)
         /\ UNCHANGED <<currentStep, loading, stepperState, config>>
    ELSE executeStepNavigation("onNext", currentStep + 1, args)

onNext(args) ==
    IF currentStep >= stepperState.generalInfo.totalSteps - 1
    THEN /\ storage' = IF SaveOn(config) THEN <<>> ELSE storage
         /\ IF args.onCompleteStep
              THEN /\ Suspend("onNext", "last", currentStep, stepperState)
                   /\ last' = Obs("onNext", args, -1, "awaitLast", "invoked",
                                  <<stepperState>>, FALSE)
              ELSE /\ UNCHANGED calls
                   /\ last' = Obs("onNext", args, -1, "warnLast", "none", <<>>, FALSE)
         /\ UNCHANGED <<currentStep, loading, stepperState, config>>
    ELSE executeStepNavigation("onNext", currentStep + 1, args)

\* Mutant: the first-step guard tests currentStep < 0.
onPrevWrongGuard(args) ==
    IF currentStep < 0
    THEN /\ last' = Obs("onPrev", args, -1, "warnFirst", "none", <<>>, FALSE)
         /\ UNCHANGED <<currentStep, loading, stepperState, config, storage, calls>>
    ELSE executeStepNavigation("onPrev", currentStep - 1, args)

onPrev(args) ==
    IF currentStep = 0
    THEN /\ last' = Obs("onPrev", args, -1, "warnFirst", "none", <<>>, FALSE)
         /\ UNCHANGED <<currentStep, loading, stepperState, config, storage, calls>>
    ELSE executeStepNavigation("onPrev", currentStep - 1, args)

\* Mutant: the access check is skipped.
goToStepUnvalidated(nextStep, args) ==
    IF nextStep < 0 \/ nextStep >= stepperState.generalInfo.totalSteps
    THEN /\ last' = Obs("goToStep", args, nextStep, "threw", "none", <<>>, FALSE)
         /\ UNCHANGED <<currentStep, loading, stepperState, config, storage, calls>>
    ELSE IF nextStep = currentStep
    THEN /\ last' = Obs("goToStep", args, nextStep, "noop", "none", <<>>, FALSE)
         /\ UNCHANGED <<currentStep, loading, stepperState, config, storage, calls>>
    ELSE executeStepNavigation("goToStep", nextStep, args)

\* Mutant: the range check lets nextStep = totalSteps through.
goToStepOffByOne(nextStep, args) ==
    IF nextStep < 0 \/ nextStep > stepperState.generalInfo.totalSteps
    THEN /\ last' = Obs("goToStep", args, nextStep, "threw", "none", <<>>, FALSE)
         /\ UNCHANGED <<currentStep, loading, stepperState, config, storage, calls>>
    ELSE IF nextStep = currentStep
    THEN /\ last' = Obs("goToStep", args, nextStep, "noop", "none", <<>>, FALSE)
         /\ UNCHANGED <<currentStep, loading, stepperState, config, storage, calls>>
    ELSE IF /\ validationCanAccess(config)
            /\ nextStep > currentStep
            /\ ~IsTrue(StepAt(stepperState.steps, nextStep), "canAccess")
    THEN /\ last' = Obs("goToStep", args, nextStep, "blocked", "none", <<>>, FALSE)
         /\ UNCHANGED <<currentStep, loading, stepperState, config, storage, calls>>
    ELSE executeStepNavigation("goToStep", nextStep, args)

\* Mutant: the access check reads the steps after args' patches.
goToStepPatchedAccess(nextStep, args) ==
    IF nextStep < 0 \/ nextStep >= stepperState.generalInfo.totalSteps
    THEN /\ last' = Obs("goToStep", args, nextStep, "threw", "none", <<>>, FALSE)
         /\ UNCHANGED <<currentStep, loading, stepperState, config, storage, calls>>
    ELSE IF nextStep = currentStep
    THEN /\ last' = Obs("goToStep", args, nextStep, "noop", "none", <<>>, FALSE)
         /\ UNCHANGED <<currentStep, loading, stepperState, config, storage, calls>>
    ELSE IF /\ validationCanAccess(config)
            /\ nextStep > currentStep
            /\ ~IsTrue(StepAt(updateStepsStatus(stepperState, args.updateStepsStatus),
                              nextStep), "canAccess")
    THEN /\ last' = Obs("goToStep", args, nextStep, "blocked", "none", <<>>, FALSE)
         /\ UNCHANGED <<currentStep, loading, stepperState, config, storage, calls>>
    ELSE executeStepNavigation("goToStep", nextStep, args)

goToStep(nextStep, args) ==
    IF nextStep < 0 \/ nextStep >= stepperState.generalInfo.totalSteps
    THEN /\ last' = Obs("goToStep", args, nextStep, "threw", "none", <<>>, FALSE)
         /\ UNCHANGED <<currentStep, loading, stepperState, config, storage, calls>>
    ELSE IF nextStep = currentStep
    THEN /\ last' = Obs("goToStep", args, nextStep, "noop", "none", <<>>, FALSE)
         /\ UNCHANGED <<currentStep, loading, stepperState, config, storage, calls>>
    ELSE IF /\ validationCanAccess(config)
            /\ nextStep > currentStep
            /\ ~IsTrue(StepAt(stepperState.steps, nextStep), "canAccess")
    THEN /\ last' = Obs("goToStep", args, nextStep, "blocked", "none", <<>>, FALSE)
         /\ UNCHANGED <<currentStep, loading, stepperState, config, storage, calls>>
    ELSE executeStepNavigation("goToStep", nextStep, args)

\* Mutant: the commit advances the active index from where it is now.
CallbackResolvesAdvancing(s) ==
    /\ calls[s].kind # "free"
    /\ calls' = [calls EXCEPT ![s] = Free]
    /\ IF calls[s].kind = "nav"
         THEN /\ stepperState' = calls[s].newState
              /\ currentStep' = currentStep + 1
              /\ loading' = FALSE
              /\ last' = Obs(calls[s].op, NoArgs, calls[s].target, "committed",
                             "resolved", <<>>, TRUE)
         ELSE /\ last' = Obs(calls[s].op, NoArgs, -1, "warnLast", "resolved", <<>>, FALSE)
              /\ UNCHANGED <<currentStep, loading, stepperState>>
    /\ UNCHANGED <<config, storage>>

\* the awaited onCompleteStep resolves: the call goes on after the await
CallbackResolves(s) ==
    /\ calls[s].kind # "free"
    /\ calls' = [calls EXCEPT ![s] = Free]
    /\ IF calls[s].kind = "nav"
         THEN /\ stepperState' = calls[s].newState
              /\ currentStep' = calls[s].target
              /\ loading' = FALSE
              /\ last' = Obs(calls[s].op, NoArgs, calls[s].target, "committed",
                             "resolved", <<>>, TRUE)
         ELSE /\ last' = Obs(calls[s].op, NoArgs, -1, "warnLast", "resolved", <<>>, FALSE)
              /\ UNCHANGED <<currentStep, loading, stepperState>>
    /\ UNCHANGED <<config, storage>>

\* Mutant: the transition is committed although the callback rejected.
CallbackRejectsCommitting(s) ==
    /\ calls[s].kind # "free"
    /\ calls' = [calls EXCEPT ![s] = Free]
    /\ IF calls[s].kind = "nav"
         THEN /\ stepperState' = calls[s].newState
              /\ currentStep' = calls[s].target
              /\ loading' = FALSE
              /\ last' = Obs(calls[s].op, NoArgs, calls[s].target, "caught",
                             "rejected", <<>>, TRUE)
         ELSE /\ last' = Obs(calls[s].op, NoArgs, -1, "rejectedLast", "rejected",
                             <<>>, FALSE)
              /\ UNCHANGED <<currentStep, loading, stepperState>>
    /\ UNCHANGED <<config, storage>>

\* Mutant: loading is not cleared when the callback rejected.
CallbackRejectsKeepsLoading(s) ==
    /\ calls[s].kind # "free"
    /\ calls' = [calls EXCEPT ![s] = Free]
    /\ IF calls[s].kind = "nav"
         THEN last' = Obs(calls[s].op, NoArgs, calls[s].target, "caught",
                          "rejected", <<>>, FALSE)
         ELSE last' = Obs(calls[s].op, NoArgs, -1, "rejectedLast", "rejected",
                          <<>>, FALSE)
    /\ UNCHANGED <<currentStep, loading, stepperState, config, storage>>

\* the awaited onCompleteStep rejects: executeStepNavigation catches and logs;
\* onNext on the last step has no try around its await and rejects itself
CallbackRejects(s) ==
    /\ calls[s].kind # "free"
    /\ calls' = [calls EXCEPT ![s] = Free]
    /\ IF calls[s].kind = "nav"
         THEN /\ loading' = FALSE
              /\ last' = Obs(calls[s].op, NoArgs, calls[s].target, "caught",
                             "rejected", <<>>, FALSE)
         ELSE /\ last' = Obs(calls[s].op, NoArgs, -1, "rejectedLast", "rejected",
                             <<>>, FALSE)
              /\ UNCHANGED loading
    /\ UNCHANGED <<currentStep, stepperState, config, storage>>

(***************************************************************************)
(* useStepsActions.tsx: the step actions.                                  *)
(***************************************************************************)
validKeys == {"canAccess", "canEdit", "isOptional", "isCompleted"}

\* step.k !== undefined ? step.k : dflt    and    step.k || false
FlagOr(step, k, dflt) == IF k \in DOMAIN step THEN step[k] ELSE dflt

\* Mutant: canAccess defaults to false on every step.
StepsInfoStateNoAccess(prevState, steps) ==
    Spread(prevState, [
        generalInfo |->
            [totalSteps |-> Len(steps),
             currentProgress |-> Zero,
             completedProgress |-> Zero,
             canAccessProgress |-> IF Len(steps) > 0 THEN Div(1, Len(steps)) ELSE Zero],
        steps |->
            [i \in 1..Len(steps) |->
                [name |-> steps[i].name,
                 canAccess |-> FlagOr(steps[i], "canAccess", FALSE),
                 canEdit |-> FlagOr(steps[i], "canEdit", FALSE),
                 isOptional |-> IsTrue(steps[i], "isOptional"),
                 isCompleted |-> IsTrue(steps[i], "isCompleted")]]])

\* setStepsInfo: the state its updater returns for prevState
StepsInfoState(prevState, steps) ==
    Spread(prevState, [
        generalInfo |->
            [totalSteps |-> Len(steps),
             currentProgress |-> Zero,
             completedProgress |-> Zero,
             canAccessProgress |-> IF Len(steps) > 0 THEN Div(1, Len(steps)) ELSE Zero],
        steps |->
            [i \in 1..Len(steps) |->
                [name |-> steps[i].name,
                 canAccess |-> FlagOr(steps[i], "canAccess", (i - 1) = 0),
                 canEdit |-> FlagOr(steps[i], "canEdit", FALSE),
                 isOptional |-> IsTrue(steps[i], "isOptional"),
                 isCompleted |-> IsTrue(steps[i], "isCompleted")]]])

\* the step lists setStepsInfo is given: n steps named by position and
\* without flags, for every n up to MaxSteps; and MaxSteps steps with flags:
\* canAccess set on every step and false on the last, the first step completed
StepConfigLists ==
    { [i \in 1..n |-> [name |-> StepName(i)]] : n \in 0..MaxSteps }
        \cup { [i \in 1..MaxSteps |->
                  IF i = 1
                  THEN [name |-> StepName(i), canAccess |-> TRUE, isCompleted |-> TRUE]
                  ELSE [name |-> StepName(i), canAccess |-> (i < MaxSteps)]] }

setStepsInfo(steps) ==
    /\ stepperState' = StepsInfoState(stepperState, steps)
    /\ last' = Obs("setStepsInfo", NoArgs, -1, "done", "none", <<>>, TRUE)
    /\ UNCHANGED <<currentStep, loading, config, storage, calls>>

cleanLocalStorage ==
    /\ storage' = <<>>
    /\ last' = Obs("cleanLocalStorage", NoArgs, -1, "done", "none", <<>>, FALSE)
    /\ UNCHANGED <<currentStep, loading, stepperState, config, calls>>

\* Mutant: generalState is replaced by data.
updateGeneralStateReplacing(data) ==
    LET newState == [stepperState EXCEPT !.generalState = data] IN
    /\ stepperState' = newState
    /\ storage' = saveToLocalStorage(config, storage, newState)
    /\ last' = Obs("updateGeneralState", NoArgs, -1, "done", "none", <<>>, TRUE)
    /\ UNCHANGED <<currentStep, loading, config, calls>>

updateGeneralState(data) ==
    LET newState == [stepperState EXCEPT
                        !.generalState = Spread(stepperState.generalState, data)] IN
    /\ stepperState' = newState
    /\ storage' = saveToLocalStorage(config, storage, newState)
    /\ last' = Obs("updateGeneralState", NoArgs, -1, "done", "none", <<>>, TRUE)
    /\ UNCHANGED <<currentStep, loading, config, calls>>

\* the validation pass of updateSteps: no update throws
UpdatesValid(state, updates) ==
    \A i \in 1..Len(updates) :
        /\ DOMAIN updates[i].data \subseteq validKeys
        /\ ~(updates[i].stepIndex < 0 \/ updates[i].stepIndex >= Len(state.steps))

\* updatedSteps[stepIndex] = { ...updatedSteps[stepIndex], ...data }, in order
RECURSIVE ApplyUpdates(_, _)
ApplyUpdates(acc, updates) ==
    IF updates = <<>> THEN acc
    ELSE LET u == Head(updates) IN
         ApplyUpdates(SetAt(acc, u.stepIndex, Spread(StepAt(acc, u.stepIndex), u.data)),
                      Tail(updates))

\* the update lists updateSteps is given: valid ones (one of them with two
\* updates of the same step), one with a key that is not a flag, one past the
\* end, and a valid update followed by an invalid one
UpdateLists(state) ==
    { <<[stepIndex |-> 0, data |-> [canAccess |-> FALSE]]>>,
      <<[stepIndex |-> 1, data |-> [isCompleted |-> TRUE, canEdit |-> TRUE]],
        [stepIndex |-> 1, data |-> [canAccess |-> TRUE, isCompleted |-> FALSE]]>>,
      <<[stepIndex |-> 0, data |-> [name |-> "x"]]>>,
      <<[stepIndex |-> Len(state.steps), data |-> [canEdit |-> TRUE]]>>,
      <<[stepIndex |-> 0, data |-> [isCompleted |-> TRUE]],
        [stepIndex |-> 0 - 1, data |-> [canEdit |-> TRUE]]>> }

\* Mutant: the updates before the first invalid one are applied before the
\* call throws.
updateStepsApplyingPrefix(updates) ==
    IF ~UpdatesValid(stepperState, updates)
    THEN LET valid == { n \in 0..Len(updates) :
                          UpdatesValid(stepperState, SubSeq(updates, 1, n)) }
             n == CHOOSE m \in valid : (m + 1) \notin valid
             newState == [stepperState EXCEPT
                             !.steps = ApplyUpdates(stepperState.steps,
                                                    SubSeq(updates, 1, n))] IN
         /\ stepperState' = newState
         /\ last' = Obs("updateSteps", NoArgs, -1, "threw", "none", <<>>, FALSE)
         /\ UNCHANGED <<currentStep, loading, config, storage, calls>>
    ELSE LET newState == [stepperState EXCEPT
                             !.steps = ApplyUpdates(stepperState.steps, updates)] IN
         /\ stepperState' = newState
         /\ storage' = saveToLocalStorage(config, storage, newState)
         /\ last' = Obs("updateSteps", NoArgs, -1, "done", "none", <<>>, TRUE)
         /\ UNCHANGED <<currentStep, loading, config, calls>>

\* Mutant: each update is spread over the step as it was before the call.
updateStepsOverOriginal(updates) ==
    IF ~UpdatesValid(stepperState, updates)
    THEN /\ last' = Obs("updateSteps", NoArgs, -1, "threw", "none", <<>>, FALSE)
         /\ UNCHANGED <<currentStep, loading, stepperState, config, storage, calls>>
    ELSE LET newState == [stepperState EXCEPT
                             !.steps = updateStepsStatus(stepperState, updates)] IN
         /\ stepperState' = newState
         /\ storage' = saveToLocalStorage(config, storage, newState)
         /\ last' = Obs("updateSteps", NoArgs, -1, "done", "none", <<>>, TRUE)
         /\ UNCHANGED <<currentStep, loading, config, calls>>

updateSteps(updates) ==
    IF ~UpdatesValid(stepperState, updates)
    THEN /\ last' = Obs("updateSteps", NoArgs, -1, "threw", "none", <<>>, FALSE)
         /\ UNCHANGED <<currentStep, loading, stepperState, config, storage, calls>>
    ELSE LET newState == [stepperState EXCEPT
                             !.steps = ApplyUpdates(stepperState.steps, updates)] IN
         /\ stepperState' = newState
         /\ storage' = saveToLocalStorage(config, storage, newState)
         /\ last' = Obs("updateSteps", NoArgs, -1, "done", "none", <<>>, TRUE)
         /\ UNCHANGED <<currentStep, loading, config, calls>>

(***************************************************************************)
(* The provider after construction, and its steps.                         *)
(***************************************************************************)
\* createInitialState with nothing stored, then the effect that initialises
\* the steps from initialConfig.steps when that list is not empty
MountState(steps) ==
    IF Len(steps) > 0 THEN StepsInfoState(baseState, steps) ELSE baseState

\* Mutant: isLastStep compares the active index with totalSteps.
activeStepOffByOne ==
    LET currentActiveStep ==
            IF currentStep >= 0 /\ currentStep < Len(stepperState.steps)
            THEN stepperState.steps[currentStep + 1]
            ELSE [name |-> "", canAccess |-> FALSE, canEdit |-> FALSE,
                  isOptional |-> FALSE, isCompleted |-> FALSE]
    IN  Spread(currentActiveStep,
               [index |-> currentStep,
                isLastStep |-> currentStep = stepperState.generalInfo.totalSteps,
                isFirstStep |-> currentStep = 0])

\* the activeStep of the context value: stepperState.steps[currentStep] or
\* the placeholder, with index, isLastStep and isFirstStep
activeStep ==
    LET currentActiveStep ==
            IF currentStep >= 0 /\ currentStep < Len(stepperState.steps)
            THEN stepperState.steps[currentStep + 1]
            ELSE [name |-> "", canAccess |-> FALSE, canEdit |-> FALSE,
                  isOptional |-> FALSE, isCompleted |-> FALSE]
    IN  Spread(currentActiveStep,
               [index |-> currentStep,
                isLastStep |-> currentStep = stepperState.generalInfo.totalSteps - 1,
                isFirstStep |-> currentStep = 0])

\* nothing observed / the state a call is made in, with the call's input
NoSnapshot == [taken |-> FALSE]

Snapshot(input) ==
    [taken |-> TRUE, currentStep |-> currentStep, stepperState |-> stepperState,
     storage |-> storage, loading |-> loading, input |-> input]

\* what setStepsInfo's updater keeps of the state it is given, with the list
StepsSnapshot(steps) ==
    [taken |-> TRUE, currentStep |-> currentStep,
     generalState |-> stepperState.generalState,
     isLoadedFromLocalStorage |-> stepperState.isLoadedFromLocalStorage,
     storage |-> storage, input |-> steps]

Init ==
    /\ currentStep = 0
    /\ loading = FALSE
    /\ config \in Configs
    /\ \E steps \in StepConfigLists : stepperState = MountState(steps)
    /\ storage = <<>>
    /\ calls = [s \in Slots |-> Free]
    /\ last = Obs("mount", NoArgs, -1, "done", "none", <<>>, FALSE)
    /\ ops = 0
    /\ pre = NoSnapshot

\* the targets goToStep is called with: every index and one on either side
Targets == (0 - 1)..stepperState.generalInfo.totalSteps

\* the outcomes of a call that changed nothing
NoEffect == {"threw", "noop", "blocked", "warnFirst"}

\* A run of the model makes at most MaxOps calls that change something; a
\* call that changes nothing ends the run, since whatever follows it is what
\* follows the state it was made in.
Spend == ops' = IF last'.outcome \in NoEffect THEN MaxOps ELSE ops + 1

OnNext ==
    /\ ops < MaxOps
    /\ \E args \in NavArgs(stepperState) :
           onNext(args) /\ Spend /\ pre' = Snapshot(<<>>)

OnPrev ==
    /\ ops < MaxOps
    /\ \E args \in NavArgs(stepperState) :
           onPrev(args) /\ Spend /\ pre' = Snapshot(<<>>)

GoToStep ==
    /\ ops < MaxOps
    /\ \E t \in Targets, args \in NavArgs(stepperState) :
           goToStep(t, args) /\ Spend /\ pre' = Snapshot(<<>>)

SetStepsInfo ==
    \E steps \in StepConfigLists :
        ops < MaxOps /\ setStepsInfo(steps) /\ Spend /\ pre' = StepsSnapshot(steps)

UpdateSteps ==
    /\ ops < MaxOps
    /\ \E updates \in UpdateLists(stepperState) :
           updateSteps(updates) /\ Spend /\ pre' = Snapshot(updates)

UpdateGeneralState ==
    \E data \in Datas :
        ops < MaxOps /\ updateGeneralState(data) /\ Spend /\ pre' = Snapshot(<<data>>)

CleanLocalStorage == ops < MaxOps /\ cleanLocalStorage /\ Spend /\ pre' = NoSnapshot

\* a suspended call goes on: its onCompleteStep resolves or rejects
Resolve == \E s \in Slots : CallbackResolves(s) /\ UNCHANGED ops /\ pre' = NoSnapshot

Reject == \E s \in Slots : CallbackRejects(s) /\ UNCHANGED ops /\ pre' = NoSnapshot

Next ==
    \/ OnNext
    \/ OnPrev
    \/ GoToStep
    \/ Resolve
    \/ Reject
    \/ SetStepsInfo
    \/ UpdateSteps
    \/ UpdateGeneralState
    \/ CleanLocalStorage

Spec == Init /\ [][Next]_vars

\* every awaited onCompleteStep settles: a promise that resolves or rejects
\* has its continuation run by the event loop
Settles(s) ==
    /\ CallbackResolves(s) \/ CallbackRejects(s)
    /\ UNCHANGED ops
    /\ pre' = NoSnapshot

LiveSpec == Spec /\ \A s \in Slots : WF_vars(Settles(s))

(***************************************************************************)
(* StepsContext.tsx: mounting the provider over what the store holds, and  *)
(* useStepsActions.tsx: updateConfig.                                      *)
(***************************************************************************)
\* what the store may hold besides a blob written by the provider: a text
\* that is not JSON, and JSON of another shape (no steps)
Unparseable == [unparseable |-> TRUE]

NoStepsBlob == [generalState |-> [k1 |-> 1]]

\* JSON of a steps list and nothing else
StepsOnlyBlob == [steps |-> <<>>]

\* JSON.parse(localStorageItem) returns
CanParse(blob) == "unparseable" \notin DOMAIN blob

\* Mutant: the active index restored at mount is 0.
createInitialStateAtZero(cfg, store, readThrows) ==
    LET base == [state |-> baseState, currentStep |-> 0] IN
    IF ~SaveOn(cfg) \/ readThrows \/ store = <<>> THEN base
    ELSE IF ~CanParse(store[1]) \/ "steps" \notin DOMAIN store[1] THEN base
    ELSE [state |-> Spread(store[1], [isLoadedFromLocalStorage |-> TRUE]),
          currentStep |-> 0]

\* createInitialState: getItem throwing, JSON.parse throwing and
\* savedState.steps.filter throwing (no steps) all end in the catch
createInitialState(cfg, store, readThrows) ==
    LET base == [state |-> baseState, currentStep |-> 0] IN
    IF ~SaveOn(cfg) \/ readThrows \/ store = <<>> THEN base
    ELSE IF ~CanParse(store[1]) \/ "steps" \notin DOMAIN store[1] THEN base
    ELSE [state |-> Spread(store[1], [isLoadedFromLocalStorage |-> TRUE]),
          currentStep |-> CountTrue(store[1].steps, "isCompleted")]

\* the provider is mounted (the page is loaded again) with the configured
\* step list steps: the state is created from the store, then the effect
\* initialises the steps when the list is not empty; calls of the provider
\* that went away are gone
mount(steps, readThrows) ==
    LET initial == createInitialState(config, storage, readThrows) IN
    /\ currentStep' = initial.currentStep
    /\ stepperState' = IF Len(steps) > 0 THEN StepsInfoState(initial.state, steps)
                       ELSE initial.state
    /\ loading' = FALSE
    /\ calls' = [s \in Slots |-> Free]
    /\ last' = Obs("mount", NoArgs, -1, "done", "none", <<>>, FALSE)
    /\ UNCHANGED <<config, storage>>

\* what createInitialState returned at a mount, with what it was given
MountSnapshot(steps, readThrows) ==
    [taken |-> TRUE, initial |-> createInitialState(config, storage, readThrows),
     storage |-> storage, readThrows |-> readThrows, input |-> steps]

\* the step lists the provider is mounted with: none, and MaxSteps plain steps
MountLists == { <<>>, [i \in 1..MaxSteps |-> [name |-> StepName(i)]] }

\* prev.steps || []
StepsOf(cfg) == IF "steps" \in DOMAIN cfg THEN cfg.steps ELSE <<>>

\* validations.goToStep?.canAccess, <<>> when undefined
ValidationOf(cfg) ==
    IF /\ "validations" \in DOMAIN cfg
       /\ "goToStep" \in DOMAIN cfg.validations
    THEN Field(cfg.validations.goToStep, "canAccess")
    ELSE <<>>

hasConfigChanged(prev, newConfigCombined) ==
    \/ Field(prev, "saveLocalStorage") # Field(newConfigCombined, "saveLocalStorage")
    \/ Len(StepsOf(prev)) # Len(StepsOf(newConfigCombined))
    \/ \E i \in 1..Len(StepsOf(newConfigCombined)) :
          \E k \in {"name", "canAccess", "canEdit", "isOptional", "isCompleted"} :
              Field(StepsOf(prev)[i], k) # Field(StepsOf(newConfigCombined)[i], k)
    \/ ValidationOf(prev) # ValidationOf(newConfigCombined)

updateConfig(newConfig) ==
    LET newConfigCombined == Spread(config, newConfig)
        changed == hasConfigChanged(config, newConfigCombined) IN
    /\ config' = IF changed THEN newConfigCombined ELSE config
    /\ last' = Obs("updateConfig", NoArgs, -1, IF changed THEN "done" ELSE "noop",
                   "none", <<>>, FALSE)
    /\ UNCHANGED <<currentStep, loading, stepperState, storage, calls>>

\* the configuration when updateConfig is called, with its argument
ConfigSnapshot(newConfig) == [taken |-> TRUE, config |-> config, input |-> <<newConfig>>]

\* the patches updateConfig is given: persistence off, and a next block
ConfigPatches == { [saveLocalStorage |-> FALSE], [next |-> TestNav.next] }

\* something other than the provider writes the store
storageDrift(blob) ==
    /\ storage' = <<blob>>
    /\ last' = Obs("storageDrift", NoArgs, -1, "done", "none", <<>>, FALSE)
    /\ UNCHANGED <<currentStep, loading, stepperState, config, calls>>

\* whether getItem throws: it is called only with saveLocalStorage on, and
\* throwing on an empty store gives what the empty store gives
ReadOutcomes == IF SaveOn(config) /\ storage # <<>> THEN BOOLEAN ELSE {FALSE}

\* The handlers throw a TypeError on a state that lacks a key of the stepper
\* state, so a run that mounted such a state is not followed further.
Mount ==
    \E steps \in MountLists, readThrows \in ReadOutcomes :
        /\ ops < MaxOps
        /\ mount(steps, readThrows)
        /\ ops' = IF DOMAIN baseState \subseteq DOMAIN stepperState' THEN ops + 1 ELSE MaxOps
        /\ pre' = MountSnapshot(steps, readThrows)

UpdateConfig ==
    \E newConfig \in ConfigPatches :
        ops < MaxOps /\ updateConfig(newConfig) /\ Spend /\ pre' = ConfigSnapshot(newConfig)

\* followed with saveLocalStorage on: the store is not read without it
StorageDrift ==
    \E blob \in {Unparseable, NoStepsBlob, StepsOnlyBlob} :
        /\ ops < MaxOps
        /\ SaveOn(config)
        /\ storageDrift(blob)
        /\ Spend
        /\ pre' = NoSnapshot

\* the provider over its lifetime: the handlers, updateConfig, the store
\* changing under it, and mounting again
ProviderNext ==
    \/ Next
    \/ Mount
    \/ UpdateConfig
    \/ StorageDrift

ProviderSpec == Init /\ [][ProviderNext]_vars

(***************************************************************************)
(* The handlers when localStorage.setItem throws (the quota is exceeded).  *)
(* saveToLocalStorage has no try of its own, so the error goes to whoever  *)
(* called it.                                                              *)
(***************************************************************************)
\* the navigation calls whose guards let them through to
\* executeStepNavigation in this state, as <<handler, targetStep>>
AcceptedCalls ==
    LET totalSteps == stepperState.generalInfo.totalSteps IN
    (IF currentStep >= totalSteps - 1 THEN {} ELSE {<<"onNext", currentStep + 1>>})
    \cup (IF currentStep = 0 THEN {} ELSE {<<"onPrev", currentStep - 1>>})
    \cup { <<"goToStep", t>> : t \in
             { n \in 0..(totalSteps - 1) :
                 /\ n # currentStep
                 /\ ~(/\ validationCanAccess(config)
                      /\ n > currentStep
                      /\ ~IsTrue(StepAt(stepperState.steps, n), "canAccess")) } }

\* executeStepNavigation when saveToLocalStorage throws: the error is caught
\* by the try around it, before the callback and before the commit; the
\* finally clears loading
executeStepNavigationWriteFails(op, targetStep, args) ==
    /\ SaveOn(config)
    /\ loading' = FALSE
    /\ last' = Obs(op, args, targetStep, "writeCaught", "none", <<>>, FALSE)
    /\ UNCHANGED <<currentStep, stepperState, config, storage, calls>>

\* updateSteps when saveToLocalStorage throws: updateStepperState was called
\* before it, and the error leaves updateSteps
updateStepsWriteFails(updates) ==
    /\ SaveOn(config)
    /\ UpdatesValid(stepperState, updates)
    /\ stepperState' = [stepperState EXCEPT
                           !.steps = ApplyUpdates(stepperState.steps, updates)]
    /\ last' = Obs("updateSteps", NoArgs, -1, "writeThrew", "none", <<>>, TRUE)
    /\ UNCHANGED <<currentStep, loading, config, storage, calls>>

\* updateGeneralState when saveToLocalStorage throws, likewise
updateGeneralStateWriteFails(data) ==
    /\ SaveOn(config)
    /\ stepperState' = [stepperState EXCEPT
                           !.generalState = Spread(stepperState.generalState, data)]
    /\ last' = Obs("updateGeneralState", NoArgs, -1, "writeThrew", "none", <<>>, TRUE)
    /\ UNCHANGED <<currentStep, loading, config, storage, calls>>

\* A call whose write failed ends the run: what follows it is what follows
\* the same state of the provider over an older store.
NavigationWriteFails ==
    /\ ops < MaxOps
    /\ \E call \in AcceptedCalls, args \in NavArgs(stepperState) :
           executeStepNavigationWriteFails(call[1], call[2], args)
    /\ ops' = MaxOps
    /\ pre' = Snapshot(<<>>)

UpdateStepsWriteFails ==
    /\ ops < MaxOps
    /\ \E updates \in UpdateLists(stepperState) :
           updateStepsWriteFails(updates) /\ pre' = Snapshot(updates)
    /\ ops' = MaxOps

UpdateGeneralStateWriteFails ==
    /\ ops < MaxOps
    /\ \E data \in Datas :
           updateGeneralStateWriteFails(data) /\ pre' = Snapshot(<<data>>)
    /\ ops' = MaxOps

\* the provider over a store that may refuse a write
QuotaNext ==
    \/ Next
    \/ NavigationWriteFails
    \/ UpdateStepsWriteFails
    \/ UpdateGeneralStateWriteFails

QuotaSpec == Init /\ [][QuotaNext]_vars

(***************************************************************************)
(* onNext called again while earlier onNext calls are awaiting their       *)
(* callbacks: nothing in the hook keeps a second call from starting.       *)
(***************************************************************************)
\* the bundles of these calls: each has a callback; one patches the first
\* step, the other merges data
OverlapArgs(state) ==
    { Bundle(TRUE, PatchOf(state, 0, [canEdit |-> TRUE]), <<>>),
      Bundle(TRUE, <<>>, <<[k1 |-> 1]>>) }

\* at most MaxCalls calls are made in a run
OverlapOnNext ==
    /\ ops < MaxCalls
    /\ \E args \in OverlapArgs(stepperState) :
           onNext(args) /\ pre' = Snapshot(<<>>)
    /\ ops' = ops + 1

OverlapNext ==
    \/ OverlapOnNext
    \/ Resolve
    \/ Reject

OverlapSpec == Init /\ [][OverlapNext]_vars

(***************************************************************************)
(* The stepper used the plain way: default navigation configuration,       *)
(* validation on, persistence on, steps given by name only, and navigation *)
(* calls without updateStepsStatus made one after the other.               *)
(***************************************************************************)
PlainConfigs ==
    { MakeConfig(NoNav, EmptyObj, TRUE), MakeConfig(NoNav, Validation(TRUE), TRUE) }

PlainInit ==
    /\ currentStep = 0
    /\ loading = FALSE
    /\ config \in PlainConfigs
    /\ \E n \in 0..MaxSteps :
           stepperState = MountState([i \in 1..n |-> [name |-> StepName(i)]])
    /\ storage = <<>>
    /\ calls = [s \in Slots |-> Free]
    /\ last = Obs("mount", NoArgs, -1, "done", "none", <<>>, FALSE)
    /\ ops = 0
    /\ pre = NoSnapshot

\* without a callback, and with a callback and data
PlainArgs == { Bundle(FALSE, <<>>, <<>>), Bundle(TRUE, <<>>, <<[k1 |-> 1]>>) }

PlainOnNext ==
    /\ AllFree
    /\ \E args \in PlainArgs : onNext(args)
    /\ pre' = Snapshot(<<>>)
    /\ UNCHANGED ops

PlainOnPrev ==
    /\ AllFree
    /\ \E args \in PlainArgs : onPrev(args)
    /\ pre' = Snapshot(<<>>)
    /\ UNCHANGED ops

PlainGoToStep ==
    /\ AllFree
    /\ \E t \in Targets, args \in PlainArgs : goToStep(t, args)
    /\ pre' = Snapshot(<<>>)
    /\ UNCHANGED ops

PlainNext ==
    \/ PlainOnNext
    \/ PlainOnPrev
    \/ PlainGoToStep
    \/ Resolve
    \/ Reject

PlainSpec == PlainInit /\ [][PlainNext]_vars

(***************************************************************************)
(* Properties.  A step of a handler is described by last', the state the   *)
(* handler was called in by the unprimed variables.                        *)
(***************************************************************************)
\* last describes a call of a handler (not the continuation of a suspended one)
IsCall(l) == l.op # "mount" /\ l.cb \in {"none", "invoked"}

TotalSteps == stepperState.generalInfo.totalSteps

\* the ratio r equals a / b
RatioIs(r, a, b) == r.num * b = a * r.den

NumTrue(steps, flag) == Cardinality({ i \in 1..Len(steps) : IsTrue(steps[i], flag) })

AtLeastOne(n) == IF n > 1 THEN n ELSE 1

\* no next / prev block configured
DefaultNav(cfg) == "next" \notin DOMAIN cfg /\ "prev" \notin DOMAIN cfg

\* slot s held a suspended navigation and this step is its callback rejecting
NavRejected(s) ==
    calls[s].kind = "nav" /\ calls'[s].kind = "free" /\ last'.cb = "rejected"

\* C1 as stated: when the onCompleteStep of an accepted navigation to t
\* rejects, the rejection is caught and the transition is nevertheless
\* committed: the active index becomes t and the stepper state the newly
\* computed state.
C1_Original ==
    [][\A s \in Slots :
          NavRejected(s) =>
              /\ last'.outcome = "caught"
              /\ currentStep' = calls[s].target
              /\ stepperState' = calls[s].newState]_vars

\* C1 amended: when the onCompleteStep of an accepted navigation rejects, the
\* rejection is caught and loading is cleared, but nothing is committed: the
\* active index, the in-memory stepper state and the persisted blob stay as
\* they were when the callback rejected, and updateStepperState is not called.
C1_Amended ==
    [][\A s \in Slots :
          NavRejected(s) =>
              /\ last'.outcome = "caught"
              /\ ~last'.replaced
              /\ loading' = FALSE
              /\ UNCHANGED <<currentStep, stepperState, storage>>]_vars

\* a navigation's callback has just rejected, and the index it was heading
\* for is not the active one
C1_Witness ==
    /\ last.cb = "rejected"
    /\ last.outcome = "caught"
    /\ last.target # currentStep
    /\ ~loading

\* C2: goToStep(t, args) with t < 0 or t >= N throws and leaves the active
\* index, the stepper state (steps, generalInfo, generalState), loading and
\* the persisted blob unchanged; onCompleteStep is not invoked.
C2_OutOfRangeThrows ==
    [][(/\ IsCall(last')
        /\ last'.op = "goToStep"
        /\ (last'.target < 0 \/ last'.target >= TotalSteps))
          => /\ last'.outcome = "threw"
             /\ last'.cb = "none"
             /\ ~last'.replaced
             /\ UNCHANGED <<currentStep, stepperState, loading, storage, calls>>]_vars

\* goToStep was called past the end of a non-empty step list, with a callback
C2_Witness ==
    /\ last.op = "goToStep"
    /\ last.outcome = "threw"
    /\ TotalSteps > 0
    /\ last.target >= TotalSteps
    /\ last.args.onCompleteStep

\* C3: with validations.goToStep.canAccess true or unset, goToStep(t, args)
\* with t after the active index and steps[t].canAccess not true in the
\* stored steps returns without throwing and changes nothing: no patch of
\* args is applied, nothing is persisted, onCompleteStep is not invoked.
C3_InaccessibleBlocked ==
    [][(/\ IsCall(last')
        /\ last'.op = "goToStep"
        /\ validationCanAccess(config)
        /\ last'.target > currentStep
        /\ last'.target < TotalSteps
        /\ ~IsTrue(StepAt(stepperState.steps, last'.target), "canAccess"))
          => /\ last'.outcome = "blocked"
             /\ last'.cb = "none"
             /\ ~last'.replaced
             /\ UNCHANGED <<currentStep, stepperState, loading, storage, calls>>]_vars

\* goToStep was blocked although its own updateStepsStatus grants access to
\* the target, and a callback was given
C3_Witness ==
    /\ last.op = "goToStep"
    /\ last.outcome = "blocked"
    /\ last.args.onCompleteStep
    /\ last.args.updateStepsStatus # <<>>
    /\ last.args.updateStepsStatus[1].stepIndex = last.target
    /\ IsTrue(last.args.updateStepsStatus[1].data, "canAccess")

\* C4: with validations.goToStep.canAccess on, goToStep(t) to another index,
\* before or after the active one, goes ahead only if steps[t].canAccess is
\* true when the call is made.
C4_TargetAccessValidated ==
    [][(/\ IsCall(last')
        /\ last'.op = "goToStep"
        /\ validationCanAccess(config)
        /\ last'.outcome \in {"committed", "await"})
          => IsTrue(StepAt(stepperState.steps, last'.target), "canAccess")]_vars

\* the state an accepted navigation call computed: committed at once, or
\* handed to the callback
Computed == IF last'.outcome = "committed" THEN stepperState' ELSE last'.cbArg[1]

\* C5: with N >= 2 steps, active index c < N - 1 and no next / prev block
\* configured, onNext computes a state in which step c is completed and
\* completedProgress is (number of completed steps) / N, heading for c + 1;
\* without a callback it commits that state and index at once, and with a
\* callback they are committed when the callback resolves.
C5_OnNextAdvances ==
    [][/\ (/\ IsCall(last')
           /\ last'.op = "onNext"
           /\ DefaultNav(config)
           /\ TotalSteps >= 2
           /\ currentStep < TotalSteps - 1)
             => /\ last'.outcome \in {"committed", "await"}
                /\ last'.target = currentStep + 1
                /\ IsTrue(StepAt(Computed.steps, currentStep), "isCompleted")
                /\ RatioIs(Computed.generalInfo.completedProgress,
                           NumTrue(Computed.steps, "isCompleted"), TotalSteps)
                /\ last'.outcome = "committed" => currentStep' = currentStep + 1
                /\ last'.outcome = "await" =>
                      \E s \in Slots :
                          /\ calls'[s].kind = "nav"
                          /\ calls'[s].target = currentStep + 1
                          /\ calls'[s].newState = Computed
       /\ \A s \in Slots :
             (calls[s].kind = "nav" /\ calls'[s].kind = "free"
                 /\ last'.cb = "resolved")
               => /\ currentStep' = calls[s].target
                  /\ stepperState' = calls[s].newState]_vars

\* onNext with a callback that resolved took three fresh steps from index 0
\* to index 1 with completedProgress 1/3
C5_Witness ==
    /\ last.op = "onNext"
    /\ last.outcome = "committed"
    /\ last.cb = "resolved"
    /\ DefaultNav(config)
    /\ TotalSteps = 3
    /\ currentStep = 1
    /\ IsTrue(StepAt(stepperState.steps, 0), "isCompleted")
    /\ stepperState.generalInfo.completedProgress = Div(1, 3)

\* C6: onNext on the last step (index N - 1, or 0 when N = 0) never changes
\* the active index or the stepper state and always logs the last-step
\* warning, with or without onCompleteStep, whether it resolves or rejects.
C6_LastStepAlwaysWarns ==
    [][/\ (IsCall(last') /\ last'.op = "onNext" /\ currentStep >= TotalSteps - 1)
             => /\ UNCHANGED <<currentStep, stepperState>>
                /\ last'.outcome \in {"warnLast", "awaitLast"}
       /\ \A s \in Slots :
             (calls[s].kind = "last" /\ calls'[s].kind = "free")
               => /\ UNCHANGED <<currentStep, stepperState>>
                  /\ last'.outcome = "warnLast"]_vars

C8_CallbackSeesMergedData ==
    (/\ last.op = "onNext"
     /\ last.cb = "invoked"
     /\ last.args.updateGeneralStates # <<>>)
       => LET data == DataOf(last.args.updateGeneralStates)
              received == last.cbArg[1].generalState
          IN  \A k \in DOMAIN data : k \in DOMAIN received /\ received[k] = data[k]

\* C9: onPrev(args) at index 0 and goToStep(c, args) to the active index c
\* change nothing: index, stepper state, loading, persisted blob and
\* suspended calls are unchanged, updateStepperState is not called and
\* onCompleteStep is not invoked.
C9_GuardNoOp ==
    [][(/\ IsCall(last')
        /\ \/ last'.op = "onPrev" /\ currentStep = 0
           \/ last'.op = "goToStep" /\ last'.target = currentStep)
          => /\ last'.outcome \in NoEffect
             /\ last'.cb = "none"
             /\ ~last'.replaced
             /\ UNCHANGED <<currentStep, stepperState, loading, storage, calls>>]_vars

\* onPrev was called on the first step with a callback, patch and data while
\* a blob was persisted
C9_Witness ==
    /\ last.op = "onPrev"
    /\ last.outcome = "warnFirst"
    /\ currentStep = 0
    /\ last.args.onCompleteStep
    /\ last.args.updateGeneralStates # <<>>
    /\ storage # <<>>

\* C10: the state a navigation to t has just committed has currentProgress
\* (t + 1) / max(N, 1), completedProgress (completed steps) / max(N, 1) and
\* canAccessProgress (accessible steps) / max(N, 1), counted in the
\* committed steps.
C10_CommittedProgress ==
    last.outcome = "committed" =>
        LET info == stepperState.generalInfo
            n == AtLeastOne(info.totalSteps)
        IN  /\ RatioIs(info.currentProgress, last.target + 1, n)
            /\ RatioIs(info.completedProgress,
                       NumTrue(stepperState.steps, "isCompleted"), n)
            /\ RatioIs(info.canAccessProgress,
                       NumTrue(stepperState.steps, "canAccess"), n)

\* a navigation back to index 1 of 3 steps was committed, leaving one step
\* completed and two accessible
C10_Witness ==
    /\ last.outcome = "committed"
    /\ last.op = "onPrev"
    /\ TotalSteps = 3
    /\ last.target = 1
    /\ stepperState.generalInfo.currentProgress = Div(2, 3)
    /\ stepperState.generalInfo.completedProgress = Div(1, 3)
    /\ stepperState.generalInfo.canAccessProgress = Div(2, 3)

(***************************************************************************)
(* Properties of the state a call has left, stated with pre, the state the *)
(* call was made in.                                                       *)
(***************************************************************************)
\* the ratio r lies in [0, 1]
InUnit(r) == r.num >= 0 /\ r.num <= r.den

Flags == {"canAccess", "canEdit", "isOptional", "isCompleted"}

\* last is a navigation call that was accepted: it committed at once or is
\* suspended at its callback
NavAccepted ==
    /\ pre.taken
    /\ last.op \in {"onNext", "onPrev", "goToStep"}
    /\ last.outcome \in {"committed", "await"}

\* the state an accepted navigation call computed
NavResult == IF last.outcome = "committed" THEN stepperState ELSE last.cbArg[1]

\* C11: in every reachable state currentProgress, completedProgress and
\* canAccessProgress lie in [0, 1].
C11_ProgressInUnitInterval ==
    /\ InUnit(stepperState.generalInfo.currentProgress)
    /\ InUnit(stepperState.generalInfo.completedProgress)
    /\ InUnit(stepperState.generalInfo.canAccessProgress)

\* C12: after every operation steps.length equals generalInfo.totalSteps,
\* whatever stepIndex values a navigation's updateStepsStatus carries.
C12_LengthIsTotalSteps == Len(stepperState.steps) = stepperState.generalInfo.totalSteps

\* C13: an accepted navigation from c to t without updateStepsStatus leaves
\* every step other than those at c and t as it was, and changes no step's
\* name, the number of steps or totalSteps.
C13_OnlyTwoStepsChange ==
    (NavAccepted /\ last.args.updateStepsStatus = <<>>)
      => LET old == pre.stepperState
             new == NavResult
         IN  /\ Len(new.steps) = Len(old.steps)
             /\ new.generalInfo.totalSteps = old.generalInfo.totalSteps
             /\ \A i \in 1..Len(old.steps) :
                   /\ Field(new.steps[i], "name") = Field(old.steps[i], "name")
                   /\ (i - 1) \notin {pre.currentStep, last.target}
                        => new.steps[i] = old.steps[i]

\* goToStep took three steps from index 0 to index 2: both steps changed, the
\* one between them did not
C13_Witness ==
    /\ NavAccepted
    /\ last.op = "goToStep"
    /\ last.args.updateStepsStatus = <<>>
    /\ pre.currentStep = 0
    /\ last.target = 2
    /\ Len(pre.stepperState.steps) = 3
    /\ NavResult.steps[1] # pre.stepperState.steps[1]
    /\ NavResult.steps[3] # pre.stepperState.steps[3]
    /\ NavResult.steps[2] = pre.stepperState.steps[2]

\* C14: with no next / prev block configured, an accepted navigation changes
\* no flag of any step, except that a forward move sets isCompleted on the
\* step being left.
C14_DefaultKeepsFlags ==
    (NavAccepted /\ DefaultNav(config) /\ last.args.updateStepsStatus = <<>>)
      => LET old == pre.stepperState.steps
             new == NavResult.steps
             c == pre.currentStep
             t == last.target
         IN  /\ Len(new) = Len(old)
             /\ \A i \in 1..Len(old) : \A k \in Flags :
                   IF t > c /\ (i - 1) = c /\ k = "isCompleted"
                   THEN IsTrue(new[i], k)
                   ELSE Field(new[i], k) = Field(old[i], k)

\* C15: after an accepted onNext under the default configuration the step
\* that was active has canAccess and isCompleted true, whatever its
\* canAccess was.
C15_LeftStepAccessibleAndCompleted ==
    (NavAccepted /\ last.op = "onNext" /\ DefaultNav(config))
      => /\ IsTrue(StepAt(NavResult.steps, pre.currentStep), "canAccess")
         /\ IsTrue(StepAt(NavResult.steps, pre.currentStep), "isCompleted")

\* obj has every key of patch with patch's value
Carries(obj, patch) == \A k \in DOMAIN patch : k \in DOMAIN obj /\ obj[k] = patch[k]

\* C16: with goToStep.currentStep and goToStep.nextStep configured, an
\* accepted goToStep(t) from c sets the flags of goToStep.currentStep on
\* step c and those of goToStep.nextStep on step t.
C16_GoToStepOverridesApplied ==
    (/\ NavAccepted
     /\ last.op = "goToStep"
     /\ "goToStep" \in DOMAIN config)
      => /\ Carries(StepAt(NavResult.steps, pre.currentStep),
                    NavPatch(config, "goToStep", "currentStep"))
         /\ Carries(StepAt(NavResult.steps, last.target),
                    NavPatch(config, "goToStep", "nextStep"))

\* C17: whenever an onNext, onPrev or goToStep call has begun and not yet
\* returned (its onCompleteStep is pending), loading is true.
C17_LoadingWhileInFlight == (\E s \in Slots : calls[s].kind # "free") => loading

\* C18: every navigation call suspended at an onCompleteStep that settles
\* returns, and whenever no navigation call is in flight loading is false,
\* after a rejecting callback too.
C18_ReturnsAndClearsLoading ==
    /\ \A s \in Slots : (calls[s].kind # "free") ~> (calls[s].kind = "free")
    /\ [](AllFree => ~loading)

\* onPrev's callback has just rejected, no call is in flight and loading is
\* false
C18_Witness ==
    /\ last.op = "onPrev"
    /\ last.cb = "rejected"
    /\ last.outcome = "caught"
    /\ AllFree
    /\ ~loading

\* the updates are all in range for steps and use flags only
AllValid(steps, updates) ==
    \A j \in 1..Len(updates) :
        /\ DOMAIN updates[j].data \subseteq Flags
        /\ updates[j].stepIndex >= 0
        /\ updates[j].stepIndex < Len(steps)

\* C19: updateSteps with any update that has a key other than the four
\* flags or a stepIndex out of range throws and changes nothing: no step,
\* no state replacement, nothing persisted, wherever the bad update is.
C19_UpdateStepsAllOrNothing ==
    (/\ pre.taken
     /\ last.op = "updateSteps"
     /\ ~AllValid(pre.stepperState.steps, pre.input))
      => /\ last.outcome = "threw"
         /\ ~last.replaced
         /\ stepperState = pre.stepperState
         /\ storage = pre.storage
         /\ currentStep = pre.currentStep

\* updateSteps threw on its second update after a first, valid one that would
\* have completed a step
C19_Witness ==
    /\ pre.taken
    /\ last.op = "updateSteps"
    /\ last.outcome = "threw"
    /\ Len(pre.input) = 2
    /\ AllValid(pre.stepperState.steps, <<pre.input[1]>>)
    /\ IsTrue(pre.input[1].data, "isCompleted")
    /\ ~IsTrue(StepAt(pre.stepperState.steps, pre.input[1].stepIndex), "isCompleted")
    /\ stepperState = pre.stepperState

\* the updates of step index i that set key k, by position in the list
Hits(updates, i, k) ==
    { j \in 1..Len(updates) : updates[j].stepIndex = i /\ k \in DOMAIN updates[j].data }

Latest(hits) == CHOOSE j \in hits : \A h \in hits : h <= j

\* C20: updateSteps with updates all valid commits a state whose steps are
\* the previous ones with every update applied in list order, field by
\* field, updates of one step accumulating; unpatched steps, generalInfo,
\* generalState and the active index are unchanged.
C20_UpdateStepsApplied ==
    (/\ pre.taken
     /\ last.op = "updateSteps"
     /\ AllValid(pre.stepperState.steps, pre.input))
      => LET old == pre.stepperState.steps
             new == stepperState.steps
         IN  /\ last.outcome = "done"
             /\ last.replaced
             /\ Len(new) = Len(old)
             /\ \A i \in 1..Len(old) : \A k \in Flags \cup {"name"} :
                   LET hits == Hits(pre.input, i - 1, k) IN
                   IF hits = {}
                   THEN Field(new[i], k) = Field(old[i], k)
                   ELSE Field(new[i], k) = <<pre.input[Latest(hits)].data[k]>>
             /\ stepperState.generalInfo = pre.stepperState.generalInfo
             /\ stepperState.generalState = pre.stepperState.generalState
             /\ currentStep = pre.currentStep

\* updateSteps applied two updates of step 1: the second one's isCompleted
\* won and the first one's canEdit was kept
C20_Witness ==
    /\ pre.taken
    /\ last.op = "updateSteps"
    /\ last.outcome = "done"
    /\ Len(pre.input) = 2
    /\ pre.input[1].stepIndex = pre.input[2].stepIndex
    /\ ~IsTrue(StepAt(pre.stepperState.steps, 1), "canEdit")
    /\ IsTrue(StepAt(stepperState.steps, 1), "canEdit")
    /\ IsTrue(StepAt(stepperState.steps, 1), "canAccess")
    /\ ~IsTrue(StepAt(stepperState.steps, 1), "isCompleted")

\* C21: updateGeneralState({data}) commits at once a state whose
\* generalState is the previous one with data's keys overwritten and every
\* other key kept; steps, generalInfo, the active index and loading are
\* unchanged.
C21_UpdateGeneralStateMerges ==
    (pre.taken /\ last.op = "updateGeneralState")
      => LET data == pre.input[1]
             old == pre.stepperState
             new == stepperState
         IN  /\ last.outcome = "done"
             /\ last.replaced
             /\ DOMAIN new.generalState = DOMAIN old.generalState \cup DOMAIN data
             /\ \A k \in DOMAIN new.generalState :
                   new.generalState[k] =
                       IF k \in DOMAIN data THEN data[k] ELSE old.generalState[k]
             /\ new.steps = old.steps
             /\ new.generalInfo = old.generalInfo
             /\ currentStep = pre.currentStep
             /\ loading = pre.loading

\* updateGeneralState overwrote k1 and kept k2
C21_Witness ==
    /\ pre.taken
    /\ last.op = "updateGeneralState"
    /\ pre.input[1] = [k1 |-> 1]
    /\ pre.stepperState.generalState = [k1 |-> 2, k2 |-> 1]
    /\ stepperState.generalState = [k1 |-> 1, k2 |-> 1]

\* the flag k of the step setStepsInfo makes of a configured step
Given(step, k, dflt) == IF k \in DOMAIN step THEN step[k] ELSE dflt

C23_SetStepsInfoResetsProgress ==
    last.op = "setStepsInfo"
      => /\ stepperState.generalInfo.currentProgress = Zero
         /\ stepperState.generalInfo.completedProgress = Zero
         /\ stepperState.generalInfo.canAccessProgress = Zero

\* C24: after updateConfig(patch) the stored configuration is the shallow
\* merge of the previous configuration and patch, whatever fields the patch
\* has (the next and prev blocks included).
C24_UpdateConfigMerges ==
    (pre.taken /\ last.op = "updateConfig")
      => config = Spread(pre.config, pre.input[1])

\* the handlers that persist
Persisting ==
    {"onNext", "onPrev", "goToStep", "updateSteps", "updateGeneralState", "setStepsInfo"}

\* C25: while config.saveLocalStorage is false, no step of onNext, onPrev,
\* goToStep, updateSteps, updateGeneralState or setStepsInfo (the call or
\* its continuation after the callback) changes the store: nothing is
\* written and onNext on the last step removes nothing.
C25_StoreUntouchedWhenOff ==
    [][(~SaveOn(config) /\ last'.op \in Persisting) => storage' = storage]_vars

\* with saveLocalStorage false and something in the store, onNext was called
\* on the last step and the store is as it was
C25_Witness ==
    /\ ~SaveOn(config)
    /\ pre.taken
    /\ last.op = "onNext"
    /\ last.outcome = "warnLast"
    /\ pre.storage # <<>>
    /\ storage = pre.storage

\* C26: with saveLocalStorage true, after setStepsInfo, updateSteps or
\* updateGeneralState returns, the store holds the blob of the resulting
\* stepper state.
C26_StepActionsPersist ==
    (/\ SaveOn(config)
     /\ last.op \in {"setStepsInfo", "updateSteps", "updateGeneralState"}
     /\ last.outcome = "done")
      => storage = <<Stringify(stepperState)>>

\* C27: with saveLocalStorage true, an onNext that moved the active index
\* from N-2 onto the last step N-1 leaves the store empty.
C27_BlobRemovedOnLastStep ==
    (/\ pre.taken
     /\ last.op = "onNext"
     /\ last.outcome = "committed"
     /\ SaveOn(config)
     /\ pre.stepperState.generalInfo.totalSteps >= 2
     /\ pre.currentStep = pre.stepperState.generalInfo.totalSteps - 2
     /\ currentStep = pre.stepperState.generalInfo.totalSteps - 1)
      => storage = <<>>

\* the provider was mounted with saveLocalStorage on, the read did not throw
\* and the store held JSON with a steps list
Restored ==
    /\ pre.taken
    /\ last.op = "mount"
    /\ SaveOn(config)
    /\ ~pre.readThrows
    /\ pre.storage # <<>>
    /\ CanParse(pre.storage[1])
    /\ "steps" \in DOMAIN pre.storage[1]

\* C28: mounting with saveLocalStorage true over a parseable blob gives as
\* initial state the blob with isLoadedFromLocalStorage = true and as
\* initial active index the number of the blob's steps with isCompleted
\* true; the index is the active index once mounted, and the state is the
\* stepper state when no step list is configured.
C28_MountRestoresBlob ==
    Restored
      => LET blob == pre.storage[1]
             initial == pre.initial
         IN  /\ DOMAIN initial.state = DOMAIN blob \cup {"isLoadedFromLocalStorage"}
             /\ initial.state.isLoadedFromLocalStorage = TRUE
             /\ \A k \in DOMAIN blob \ {"isLoadedFromLocalStorage"} :
                   initial.state[k] = blob[k]
             /\ initial.currentStep = NumTrue(blob.steps, "isCompleted")
             /\ currentStep = initial.currentStep
             /\ Len(pre.input) = 0 => stepperState = initial.state

\* the provider was mounted over a blob with a completed step and no step
\* list configured
C28_Witness ==
    /\ Restored
    /\ Len(pre.input) = 0
    /\ NumTrue(pre.storage[1].steps, "isCompleted") >= 1
    /\ currentStep = NumTrue(pre.storage[1].steps, "isCompleted")
    /\ stepperState.isLoadedFromLocalStorage
    /\ stepperState.steps = pre.storage[1].steps

\* C29: after mounting with saveLocalStorage true over a blob of a stepper
\* state, with a configured step list as long as the blob's, the steps'
\* isCompleted and canAccess flags and the progress metrics are the blob's.
C29_RestoredDataSurvivesMount ==
    (/\ Restored
     /\ DOMAIN baseState \subseteq DOMAIN pre.storage[1]
     /\ Len(pre.input) > 0
     /\ Len(pre.input) = Len(pre.storage[1].steps))
      => LET blob == pre.storage[1]
         IN  /\ Len(stepperState.steps) = Len(blob.steps)
             /\ \A i \in 1..Len(blob.steps) :
                   /\ stepperState.steps[i].isCompleted = blob.steps[i].isCompleted
                   /\ stepperState.steps[i].canAccess = blob.steps[i].canAccess
             /\ stepperState.generalInfo = blob.generalInfo

\* C30: when the read throws, or the store holds something that is not
\* JSON or JSON without some key of the stepper state, mounting gives the
\* empty default state and active index 0.
C30_MountFallsBackToDefault ==
    (/\ pre.taken
     /\ last.op = "mount"
     /\ SaveOn(config)
     /\ \/ pre.readThrows
        \/ /\ pre.storage # <<>>
           /\ \/ ~CanParse(pre.storage[1])
              \/ ~(DOMAIN baseState \subseteq DOMAIN pre.storage[1]))
      => pre.initial = [state |-> baseState, currentStep |-> 0]

\* C31: a storage write that fails only skips the write: updateSteps and
\* updateGeneralState commit the new state and return it without throwing,
\* and an accepted navigation commits its new state and its target index.
C31_WriteFailureOnlySkipsWrite ==
    (pre.taken /\ last.outcome \in {"writeCaught", "writeThrew"})
      => /\ last.outcome # "writeThrew"
         /\ last.replaced
         /\ last.op \in {"onNext", "onPrev", "goToStep"}
              => /\ currentStep = last.target
                 /\ stepperState = NavState(config, pre.stepperState, pre.currentStep,
                                            last.target, last.args)

\* activeStep is the step at the active index, or the placeholder when there
\* is none, with index, isFirstStep and isLastStep derived from the index
DerivedView ==
    /\ activeStep.index = currentStep
    /\ activeStep.isFirstStep = (currentStep = 0)
    /\ activeStep.isLastStep = (currentStep = TotalSteps - 1)
    /\ IF currentStep < Len(stepperState.steps)
       THEN \A k \in DOMAIN stepperState.steps[currentStep + 1] :
               activeStep[k] = stepperState.steps[currentStep + 1][k]
       ELSE /\ activeStep.name = ""
            /\ \A k \in Flags : activeStep[k] = FALSE

C33_GeneralStateOnlyGrows ==
    [][DOMAIN stepperState.generalState \subseteq DOMAIN stepperState'.generalState]_vars

\* the onNext calls suspended at their callbacks that were issued from the
\* active index as it is now
PendingFromHere ==
    { s \in Slots : /\ calls[s].kind = "nav"
                    /\ calls[s].op = "onNext"
                    /\ calls[s].target = currentStep + 1 }

\* slot s held a suspended navigation and this step is its commit
Commits(s) ==
    /\ calls[s].kind = "nav"
    /\ calls'[s].kind = "free"
    /\ last'.cb = "resolved"

\* C34: onNext calls that overlap are not serialised.  When a second onNext
\* is issued from index c while the first is awaiting its callback, both
\* target c + 1 and each holds the state computed from the uncommitted
\* state; each commit sets the index to its own target and the state to its
\* own computed state, so the commit of the call that was overtaken leaves
\* the index at c + 1 and replaces what the other call committed.
C34_OverlappingOnNext ==
    /\ [](Cardinality(PendingFromHere) >= 2 => \A s \in PendingFromHere :
             \E args \in OverlapArgs(stepperState) :
                 calls[s].newState =
                     NavState(config, stepperState, currentStep, currentStep + 1, args))
    /\ [][\A s \in Slots :
             Commits(s)
               => /\ currentStep' = calls[s].target
                  /\ stepperState' = calls[s].newState
                  /\ (calls[s].op = "onNext" /\ calls[s].target = currentStep)
                       => currentStep' = currentStep]_vars

\* two onNext calls were issued from index 0; one has committed a state with
\* k1, the other is still awaiting its callback with a state that has the
\* patch but not k1, and targets the index that is already active
C34_Witness ==
    \E s \in Slots :
        /\ calls[s].kind = "nav"
        /\ calls[s].op = "onNext"
        /\ calls[s].target = currentStep
        /\ currentStep = 1
        /\ last.outcome = "committed"
        /\ "k1" \in DOMAIN stepperState.generalState
        /\ "k1" \notin DOMAIN calls[s].newState.generalState
        /\ IsTrue(calls[s].newState.steps[1], "canEdit")
        /\ ~IsTrue(stepperState.steps[1], "canEdit")

\* the value a navigation from index cur to index target writes on flag k of
\* step i whatever the step held: <<v>>, or <<>> when it writes nothing
Overriding(cfg, cur, target, i, k) ==
    LET forward == target > cur
        dir == IF forward THEN "next" ELSE "prev"
        block == IF i = cur THEN NavPatch(cfg, dir, "currentStep")
                 ELSE IF i = target
                      THEN NavPatch(cfg, dir, IF forward THEN "nextStep" ELSE "prevStep")
                 ELSE EmptyObj
        dflt == IF forward /\ i = cur THEN [isCompleted |-> TRUE]
                ELSE IF forward /\ i = target THEN [canAccess |-> TRUE]
                ELSE EmptyObj
    IN  IF k \in DOMAIN block THEN <<block[k]>>
        ELSE IF k \in DOMAIN dflt THEN <<dflt[k]>>
        ELSE <<>>

C36_StatusStageEqualsUpdateSteps ==
    \A updates \in UpdateLists(stepperState) :
        UpdatesValid(stepperState, updates)
          => updateStepsStatus(stepperState, updates)
               = ApplyUpdates(stepperState.steps, updates)

\* C37: a navigation whose callback rejected leaves no trace in the store:
\* with saveLocalStorage true, once it has returned and no call is in
\* flight, a blob in the store is the blob of the committed stepper state.
C37_RejectedLeavesNoTrace ==
    (/\ SaveOn(config)
     /\ AllFree
     /\ last.outcome = "caught"
     /\ last.cb = "rejected"
     /\ storage # <<>>)
      => storage = <<Stringify(stepperState)>>

\* C38: in every reachable state with totalSteps = N > 0 the active index
\* lies in [0, N - 1].
C38_ActiveIndexInRange ==
    TotalSteps > 0 => currentStep >= 0 /\ currentStep <= TotalSteps - 1

\* C39: with the default navigation configuration, validation on, steps
\* given without flags and navigation calls without updateStepsStatus made
\* one after the other, in every state the active step has canAccess true,
\* every step below the active index has isCompleted true, and the last
\* step is not completed.
C39_PlainUseInvariant ==
    TotalSteps > 0
      => /\ IsTrue(StepAt(stepperState.steps, currentStep), "canAccess")
         /\ \A i \in 0..(currentStep - 1) :
               IsTrue(StepAt(stepperState.steps, i), "isCompleted")
         /\ ~IsTrue(StepAt(stepperState.steps, TotalSteps - 1), "isCompleted")

\* the last step was reached, the user went back to the first and jumped to
\* the last again
C39_Witness ==
    /\ TotalSteps = MaxSteps
    /\ currentStep = TotalSteps - 1
    /\ last.op = "goToStep"
    /\ last.outcome = "committed"
    /\ pre.taken
    /\ pre.currentStep = 0
    /\ \A i \in 0..(currentStep - 1) :
          IsTrue(StepAt(stepperState.steps, i), "isCompleted")

\* C40: with saveLocalStorage true, the default navigation configuration
\* and steps given without flags, after a committed onNext, onPrev or
\* goToStep a provider mounted from the store starts at the active index
\* that navigation committed.
C40_RestoreResumesAtIndex ==
    (/\ AllFree
     /\ last.op \in {"onNext", "onPrev", "goToStep"}
     /\ last.outcome = "committed")
      => createInitialState(config, storage, FALSE).currentStep = currentStep

====
